---- MODULE Spec2Model ----
(***************************************************************************)
(* A model of achievements.py: the process-wide event bus (event_registry, *)
(* a dict from event name to a set of weak references to listeners) and    *)
(* the Achievement classes built on it.  The library is single-threaded:   *)
(* a call runs to completion before the next one starts.  The calls that   *)
(* reach listeners (dispatch_event, set_achieved, increment, tick) are     *)
(* modelled as frames on a call stack, so that the position of a dispatch  *)
(* among its listeners is part of the state; the other calls are atomic.   *)
(* A listener that makes calls of its own is a frame on that stack too.    *)
(***************************************************************************)
EXTENDS Integers, Sequences, FiniteSets, TLC

VARIABLES
    event_registry,   \* dict: event name -> set of weak references
    _achivement_ids,  \* list of the ids held by constructed achievements
    alive,            \* the listeners that are still strongly referenced
    heap,             \* the Achievement instances, by object slot
    now,              \* what time() returns
    stack,            \* the frames of the call in progress, innermost last
    calls,            \* history: listener invocations of the latest call
    outcome,          \* history: how the latest top-level call ended
    last,             \* history: the latest top-level call
    hist              \* history: per object, what was done to it

vars == <<event_registry, _achivement_ids, alive, heap, now, stack,
          calls, outcome, last, hist>>

(***************************************************************************)
(* Bounds of the model.                                                    *)
(***************************************************************************)
MaxTime == 4        \* time() ranges over 0..MaxTime
MaxDelta == 2       \* increment(value) is called with value in -1..MaxDelta
Goal == 2           \* the goal given to an IncrementalAchievement
Rate == 1           \* the rate given to a TimeBasedAchievement
MaxDispatch == 2    \* on_achieved dispatches per achievement
MaxTicks == 2       \* tick() calls per achievement

(***************************************************************************)
(* The inputs: event names, listeners, achievement slots and ids.          *)
(***************************************************************************)
Names == {"on_achieved", "on_increment"}
Functions == {"f", "g"}     \* plain functions: isinstance(func, MethodType) is false
Methods == {"m"}            \* bound methods
Slotted == {"u"}            \* callables of a type without weak reference support
Callables == Functions \cup Methods \cup Slotted
Raising == {"g"}            \* listeners whose invocation raises (wrong arity)
Reentrant == {"r"}          \* listeners that call back on the achievement they get
Mutating == {"s"}           \* listeners that change the set of the event they get
Invocable == Functions \cup Methods \cup Reentrant \cup Mutating
Objs == {1, 2}
Uids == {1, 2}
Classes == {"Achievement", "IncrementalAchievement", "TimeBasedAchievement"}
Deltas == (-1) .. MaxDelta

(***************************************************************************)
(* Python values.  A listener passed to the bus is a callable; what the    *)
(* registry stores is a weak reference object (weakref.ref or WeakMethod). *)
(***************************************************************************)
Callable(func) == [cls |-> "callable", referent |-> func]
WeakRefTo(func) ==
    [cls |-> IF func \in Methods THEN "WeakMethod" ELSE "ref", referent |-> func]
NoHandle == [cls |-> "none", referent |-> "none"]
Handles == {Callable(c) : c \in Callables}
           \cup {WeakRefTo(c) : c \in Functions \cup Methods}

\* key == probe as set membership decides it: a weak reference equals
\* another weak reference of its class to the same live referent, and never
\* equals the callable it refers to.
PyEq(key, probe) ==
    /\ key.cls \in {"ref", "WeakMethod"}
    /\ probe.cls = key.cls
    /\ probe.referent = key.referent
    /\ key.referent \in alive

PyContains(S, probe) == \E key \in S : PyEq(key, probe)
SetAdd(S, x) == IF PyContains(S, x) THEN S ELSE S \cup {x}
SetRemove(S, probe) == {key \in S : ~PyEq(key, probe)}

\* weak_reference(): the referent, or None once it has been finalized
\* (calling None raises TypeError, told apart here as TypeError_None).
Deref(wr) == IF wr.referent \in alive THEN wr.referent ELSE "None"

\* dict operations on event_registry
Get(reg, name) == IF name \in DOMAIN reg THEN reg[name] ELSE {}
DelKey(reg, name) == [k \in DOMAIN reg \ {name} |-> reg[k]]

\* payloads of events
ObjArg(o) == [t |-> "obj", v |-> o]
NumArg(n) == [t |-> "num", v |-> n]
UserArgs == {NumArg(0)}

(***************************************************************************)
(* The registry operations as functions of the registry.                   *)
(***************************************************************************)
\* set_handler, lines 47-53: the entry is created before the weak
\* reference is; creating the reference fails for a Slotted callable.
SetHandlerEntry(reg, name) ==
    IF name \notin DOMAIN reg THEN reg @@ (name :> {}) ELSE reg

SetHandlerRegistry(reg, name, func) ==
    LET created == SetHandlerEntry(reg, name)
    IN  IF func \in Slotted
        THEN created
        ELSE [created EXCEPT ![name] = SetAdd(@, WeakRefTo(func))]

\* a remove_handler that deletes the name's entry whatever it holds
RemoveHandlerDropsEntry(reg, name, func) ==
    IF name \in DOMAIN reg THEN DelKey(reg, name) ELSE reg

\* remove_handler, lines 63-68
RemoveHandlerRegistry(reg, name, func) ==
    IF ~PyContains(Get(reg, name), func)
    THEN reg
    ELSE LET removed == [reg EXCEPT ![name] = SetRemove(@, func)]
         IN  IF removed[name] = {} THEN DelKey(removed, name) ELSE removed

\* a callback without lines 33-34: the emptied set stays
CallbackKeepsEmpty(reg, name, weak_method) ==
    [reg EXCEPT ![name] = @ \ {weak_method}]

\* the callback made by _make_callback(name), lines 31-34; the dead
\* reference is found in the set by identity.
callback(reg, name, weak_method) ==
    LET removed == [reg EXCEPT ![name] = @ \ {weak_method}]
    IN  IF removed[name] = {} THEN DelKey(removed, name) ELSE removed

\* the finalization of a listener runs the callback of each weak reference
\* to it that a registry set holds
RECURSIVE RunCallbacks(_, _, _)
RunCallbacks(reg, names, wr) ==
    IF names = {}
    THEN reg
    ELSE LET n == CHOOSE x \in names : TRUE
         IN  RunCallbacks(IF n \in DOMAIN reg /\ wr \in reg[n]
                          THEN callback(reg, n, wr) ELSE reg,
                          names \ {n}, wr)

(***************************************************************************)
(* _achivement_ids as a list.                                              *)
(***************************************************************************)
Range(s) == {s[i] : i \in 1 .. Len(s)}

\* list.remove(x): drops the first occurrence; without one it raises
\* ValueError, which __del__ cannot propagate, and the list is unchanged.
ListRemove(s, x) ==
    IF x \notin Range(s)
    THEN s
    ELSE LET i == CHOOSE j \in 1 .. Len(s) :
                      s[j] = x /\ \A k \in 1 .. (j - 1) : s[k] # x
         IN  SubSeq(s, 1, i - 1) \o SubSeq(s, i + 1, Len(s))

(***************************************************************************)
(* Achievement instances.                                                  *)
(***************************************************************************)
NoObject ==
    [live |-> FALSE, cls |-> "none", id |-> 0, _achieved |-> FALSE,
     _goal |-> 0, _current_value |-> 0, _rate |-> 0, _last_tick |-> 0]

\* __init__ of the three classes, after the id check has passed
NewObject(cls, uid) ==
    [live |-> TRUE, cls |-> cls, id |-> uid, _achieved |-> FALSE,
     _goal |-> IF cls = "IncrementalAchievement" THEN Goal ELSE 0,
     _current_value |-> 0,
     _rate |-> IF cls = "TimeBasedAchievement" THEN Rate ELSE 0,
     _last_tick |-> IF cls = "TimeBasedAchievement" THEN now ELSE 0]

\* what the history keeps of an instance: the on_achieved dispatches made
\* for it, whether a call on it ended in an exception, whether set_achieved
\* was called on it from outside, the running sum of its increment calls
\* (kept until it reaches the goal), the times of its tick calls and of
\* its construction
NoHist ==
    [ndisp |-> 0, failed |-> FALSE, direct |-> FALSE, sum |-> 0,
     crossed |-> FALSE, ticks |-> <<>>, born |-> 0]

(***************************************************************************)
(* Frames.                                                                 *)
(***************************************************************************)
Frame(op, self, pc) ==
    [op |-> op, self |-> self, pc |-> pc, name |-> "none", arg |-> NumArg(0),
     visited |-> {}, used |-> 0, func |-> "none", value |-> 0,
     current_time |-> 0]

\* the loop of dispatch_event, line 25; the iterator of the name's set
\* remembers the size the set had when the loop began
DispatchFrame(name, arg) ==
    [Frame("dispatch_event", 0, "loop") EXCEPT
        !.name = name, !.arg = arg,
        !.used = Cardinality(Get(event_registry, name))]

\* the body of a listener that makes calls of its own, invoked by the
\* loop of the frame below it with that frame's event and payload
ListenerFrame(func, name, arg) ==
    [Frame("listener", 0, "body") EXCEPT !.func = func, !.name = name, !.arg = arg]

Top == stack[Len(stack)]
Rest == SubSeq(stack, 1, Len(stack) - 1)
Running(op, pc) == stack # <<>> /\ Top.op = op /\ Top.pc = pc

\* a listener is registered under a name when the name's set holds a weak
\* reference to it (under some name, when none is given)
Registered(name, func) ==
    IF name = "none"
    THEN \E n \in DOMAIN event_registry : WeakRefTo(func) \in event_registry[n]
    ELSE WeakRefTo(func) \in Get(event_registry, name)

\* the record of a top-level call: besides its arguments, whether its
\* listener was registered, whether its name had an entry, which
\* references the name's set held and what its instance was like when it
\* began
Op(op, name, func, self, value) ==
    [op |-> op, name |-> name, func |-> func, self |-> self, value |-> value,
     held |-> Registered(name, func.referent),
     had |-> name \in DOMAIN event_registry,
     listeners |-> Get(event_registry, name),
     before |-> IF self \in Objs THEN heap[self] ELSE NoObject]

\* a top-level call starts: only when no call is in progress
Begin(op) ==
    /\ stack = <<>>
    /\ last' = op
    /\ calls' = <<>>

\* the frame on top returns to its caller
Return ==
    /\ stack' = Rest
    /\ outcome' = IF Rest = <<>> THEN "returned" ELSE outcome

\* an exception: no frame of the library catches it, so it unwinds the
\* whole stack and reaches the caller of the top-level call
Raise(exc) ==
    /\ stack' = <<>>
    /\ outcome' = exc
    /\ hist' = IF last.self \in Objs
               THEN [hist EXCEPT ![last.self].failed = TRUE]
               ELSE hist

(***************************************************************************)
(* The initial state: the module has just been imported.                   *)
(***************************************************************************)
Init ==
    /\ event_registry = [n \in {} |-> {}]
    /\ _achivement_ids = <<>>
    /\ alive = Invocable
    /\ heap = [o \in Objs |-> NoObject]
    /\ now = 0
    /\ stack = <<>>
    /\ calls = <<>>
    /\ outcome = "none"
    /\ last = [op |-> "none", name |-> "none", func |-> NoHandle, self |-> 0,
               value |-> 0, held |-> FALSE, had |-> FALSE, listeners |-> {},
               before |-> NoObject]
    /\ hist = [o \in Objs |-> NoHist]

(***************************************************************************)
(* The event bus.                                                          *)
(***************************************************************************)
\* set_handler(name, func), lines 39-53
set_handler(name, func) ==
    /\ Begin(Op("set_handler", name, Callable(func), 0, 0))
    /\ func \in alive \cup Slotted
    /\ event_registry' = SetHandlerRegistry(event_registry, name, func)
    /\ outcome' = IF func \in Slotted THEN "TypeError" ELSE "returned"
    /\ UNCHANGED <<_achivement_ids, alive, heap, now, stack, hist>>

\* remove_handler(name, func), lines 56-68; func is a callable, or a weak
\* reference to one
remove_handler(name, func) ==
    /\ Begin(Op("remove_handler", name, func, 0, 0))
    /\ func.cls = "callable" => func.referent \in alive \cup Slotted
    /\ event_registry' = RemoveHandlerRegistry(event_registry, name, func)
    /\ outcome' = "returned"
    /\ UNCHANGED <<_achivement_ids, alive, heap, now, stack, hist>>

\* the last strong reference to a listener goes away: the listener is
\* finalized and the callbacks of its weak references run, lines 31-34
finalize(func) ==
    /\ Begin(Op("finalize", "none", Callable(func), 0, 0))
    /\ func \in alive
    /\ alive' = alive \ {func}
    /\ event_registry' = RunCallbacks(event_registry, Names, WeakRefTo(func))
    /\ outcome' = "returned"
    /\ UNCHANGED <<_achivement_ids, heap, now, stack, hist>>

\* event_registry.get(name, []), line 25: a lookup of a missing name
\* yields the default and leaves the dict as it is
DispatchRegistry(reg, name) == reg

\* dispatch_event(name, *args) called from outside the library, line 25:
\* the loop over event_registry.get(name, []) starts
dispatch_event(name, arg) ==
    /\ Begin(Op("dispatch_event", name, NoHandle, 0, arg.v))
    /\ stack' = <<DispatchFrame(name, arg)>>
    /\ event_registry' = DispatchRegistry(event_registry, name)
    /\ outcome' = "running"
    /\ UNCHANGED <<_achivement_ids, alive, heap, now, hist>>

\* a loop that ends after its first round
PendingFirstOnly(frame) ==
    IF frame.visited = {} THEN Get(event_registry, frame.name) ELSE {}

\* the references the loop of line 25 has still to yield
Pending(frame) == Get(event_registry, frame.name) \ frame.visited

\* a loop that isolates its listeners: a failure is swallowed and the
\* loop goes on
dispatch_invoke_isolated ==
    /\ Running("dispatch_event", "loop")
    /\ \E wr \in Pending(Top) :
         /\ calls' = Append(calls, [func |-> wr.referent, name |-> Top.name,
                                    arg |-> Top.arg])
         /\ stack' = Rest \o <<[Top EXCEPT !.visited = @ \cup {wr}]>>
    /\ UNCHANGED <<event_registry, _achivement_ids, alive, heap, now,
                   outcome, last, hist>>

\* the set iterator's test, made each time the loop asks for the next
\* reference: the set no longer has the size it had when the loop began.
\* (A set emptied by a callback or remove_handler leaves the dict, but the
\* iterator still holds it, with size 0.)
SetChanged(frame) ==
    Cardinality(Get(event_registry, frame.name)) # frame.used

\* one round of the loop, lines 25-26: the set yields a reference not yet
\* visited, in the set's own order; func() is dereferenced and called.
\* A listener of Reentrant or Mutating runs as a frame of its own.
dispatch_invoke ==
    /\ Running("dispatch_event", "loop")
    /\ ~SetChanged(Top)
    /\ \E wr \in Pending(Top) :
         LET func == Deref(wr)
             loop == [Top EXCEPT !.visited = @ \cup {wr}]
         IN  IF func = "None"
             THEN /\ Raise("TypeError_None")
                  /\ UNCHANGED calls
             ELSE /\ calls' = Append(calls,
                         [func |-> func, name |-> Top.name, arg |-> Top.arg])
                  /\ IF func \in Raising
                     THEN Raise("TypeError")
                     ELSE /\ stack' =
                               IF func \in Reentrant \cup Mutating
                               THEN Rest \o <<loop, ListenerFrame(func, Top.name,
                                                                 Top.arg)>>
                               ELSE Rest \o <<loop>>
                          /\ UNCHANGED <<outcome, hist>>
    /\ UNCHANGED <<event_registry, _achivement_ids, alive, heap, now, last>>

\* the loop asks for the next reference of a set that changed size:
\* RuntimeError("Set changed size during iteration")
dispatch_changed ==
    /\ Running("dispatch_event", "loop")
    /\ SetChanged(Top)
    /\ Raise("RuntimeError")
    /\ UNCHANGED <<event_registry, _achivement_ids, alive, heap, now,
                   calls, last>>

\* the loop is exhausted: dispatch_event returns
dispatch_return ==
    /\ Running("dispatch_event", "loop")
    /\ ~SetChanged(Top)
    /\ Pending(Top) = {}
    /\ Return
    /\ UNCHANGED <<event_registry, _achivement_ids, alive, heap, now,
                   calls, last, hist>>

(***************************************************************************)
(* Achievement: construction and destruction.                              *)
(***************************************************************************)
\* a finalizer that leaves the id in the list
DelKeepsId(ids, self) == ids

\* Achievement.__del__, lines 97-98.  An instance whose __init__ was
\* rejected has no id attribute (id 0 here): self.id raises
\* AttributeError, which a finalizer cannot propagate.
__del__(ids, self) ==
    IF self.id = 0 THEN ids ELSE ListRemove(ids, self.id)

\* the id check and registration of Achievement.__init__, lines 77-78
IdAccepted(ids, uid) == uid \notin Range(ids)

\* an __init__ that assigns self.id before the test of line 77, so that
\* the finalizer of a rejected instance finds an id to remove
construct_id_first(o, cls, uid) ==
    /\ Begin(Op("construct", cls, NoHandle, o, uid))
    /\ ~heap[o].live
    /\ IF IdAccepted(_achivement_ids, uid)
       THEN /\ _achivement_ids' = Append(_achivement_ids, uid)
            /\ heap' = [heap EXCEPT ![o] = NewObject(cls, uid)]
            /\ hist' = [hist EXCEPT ![o] = [NoHist EXCEPT !.born = now]]
            /\ outcome' = "returned"
       ELSE /\ _achivement_ids' =
                  __del__(_achivement_ids, [NoObject EXCEPT !.id = uid])
            /\ outcome' = "AssertionError"
            /\ UNCHANGED <<heap, hist>>
    /\ UNCHANGED <<event_registry, alive, now, stack>>

\* Class(uid, ...), lines 74-86, 103-111, 135-141.  A rejected construction
\* raises AssertionError out of __init__; the instance it was building is
\* unreferenced and is finalized at once.
construct(o, cls, uid) ==
    /\ Begin(Op("construct", cls, NoHandle, o, uid))
    /\ ~heap[o].live
    /\ IF IdAccepted(_achivement_ids, uid)
       THEN /\ _achivement_ids' = Append(_achivement_ids, uid)
            /\ heap' = [heap EXCEPT ![o] = NewObject(cls, uid)]
            /\ hist' = [hist EXCEPT ![o] = [NoHist EXCEPT !.born = now]]
            /\ outcome' = "returned"
       ELSE /\ _achivement_ids' = __del__(_achivement_ids, NoObject)
            /\ outcome' = "AssertionError"
            /\ UNCHANGED <<heap, hist>>
    /\ UNCHANGED <<event_registry, alive, now, stack>>

\* the last reference to an instance goes away: __del__ runs
destroy(o) ==
    /\ Begin(Op("destroy", "none", NoHandle, o, heap[o].id))
    /\ heap[o].live
    /\ _achivement_ids' = __del__(_achivement_ids, heap[o])
    /\ heap' = [heap EXCEPT ![o] = NoObject]
    /\ hist' = [hist EXCEPT ![o] = NoHist]
    /\ outcome' = "returned"
    /\ UNCHANGED <<event_registry, alive, now, stack>>

(***************************************************************************)
(* Achievement.set_achieved, lines 92-95.                                  *)
(***************************************************************************)
\* a set_achieved without the test of line 93
MustDispatchAlways(self) == TRUE

\* the test of line 93
MustDispatch(self) == ~heap[self]._achieved

\* what a call of set_achieved from the frame on top leaves on the stack
CallSetAchieved(caller, self) ==
    Rest \o <<caller, Frame("set_achieved", self, "check")>>

\* the history of a set_achieved call made on an instance by a caller or
\* a listener
SetAchievedCalled(o) == [hist EXCEPT ![o].direct = TRUE]

set_achieved(o) ==
    /\ Begin(Op("set_achieved", "none", NoHandle, o, 0))
    /\ heap[o].live
    /\ hist[o].ndisp < MaxDispatch
    /\ stack' = <<Frame("set_achieved", o, "check")>>
    /\ hist' = SetAchievedCalled(o)
    /\ outcome' = "running"
    /\ UNCHANGED <<event_registry, _achivement_ids, alive, heap, now>>

\* a set_achieved that assigns line 95's flag before the dispatch
set_achieved_check_sets_first ==
    /\ Running("set_achieved", "check")
    /\ IF MustDispatch(Top.self)
       THEN /\ stack' = Rest \o <<[Top EXCEPT !.pc = "set"],
                                  DispatchFrame("on_achieved", ObjArg(Top.self))>>
            /\ event_registry' = DispatchRegistry(event_registry, "on_achieved")
            /\ hist' = [hist EXCEPT ![Top.self].ndisp = @ + 1]
            /\ heap' = [heap EXCEPT ![Top.self]._achieved = TRUE]
       ELSE /\ stack' = Rest \o <<[Top EXCEPT !.pc = "set"]>>
            /\ UNCHANGED <<event_registry, hist, heap>>
    /\ UNCHANGED <<_achivement_ids, alive, now, calls, outcome, last>>

\* lines 93-94: dispatch on_achieved with the instance, unless achieved
set_achieved_check ==
    /\ Running("set_achieved", "check")
    /\ IF MustDispatch(Top.self)
       THEN /\ stack' = Rest \o <<[Top EXCEPT !.pc = "set"],
                                  DispatchFrame("on_achieved", ObjArg(Top.self))>>
            /\ event_registry' = DispatchRegistry(event_registry, "on_achieved")
            /\ hist' = [hist EXCEPT ![Top.self].ndisp = @ + 1]
       ELSE /\ stack' = Rest \o <<[Top EXCEPT !.pc = "set"]>>
            /\ UNCHANGED <<event_registry, hist>>
    /\ UNCHANGED <<_achivement_ids, alive, heap, now, calls, outcome, last>>

\* a line 95 that flips the flag instead of setting it
set_achieved_toggles ==
    /\ Running("set_achieved", "set")
    /\ heap' = [heap EXCEPT ![Top.self]._achieved = ~@]
    /\ Return
    /\ UNCHANGED <<event_registry, _achivement_ids, alive, now,
                   calls, last, hist>>

\* line 95
set_achieved_set ==
    /\ Running("set_achieved", "set")
    /\ heap' = [heap EXCEPT ![Top.self]._achieved = TRUE]
    /\ Return
    /\ UNCHANGED <<event_registry, _achivement_ids, alive, now,
                   calls, last, hist>>

(***************************************************************************)
(* IncrementalAchievement.increment, lines 121-130.                        *)
(***************************************************************************)
\* an increment without the test of line 128
GoalReachedAlways(self) == TRUE

\* a test of line 128 with > for >=
GoalReachedStrict(self) == heap[self]._current_value > heap[self]._goal

\* the test of line 128
GoalReached(self) == heap[self]._current_value >= heap[self]._goal

\* the history of an increment call: the running sum of the values,
\* kept until it reaches the goal
IncrementCalled(o, value) ==
    [hist EXCEPT
       ![o].crossed = @ \/ hist[o].sum + value >= heap[o]._goal,
       ![o].sum = IF hist[o].crossed THEN @
                  ELSE IF @ + value < heap[o]._goal THEN @ + value
                  ELSE heap[o]._goal]

increment(o, value) ==
    /\ Begin(Op("increment", "none", NoHandle, o, value))
    /\ heap[o].live /\ heap[o].cls = "IncrementalAchievement"
    /\ hist[o].ndisp < MaxDispatch
    /\ heap[o]._current_value + value \in (-1) .. (Goal + MaxDelta)
    /\ hist[o].sum + value >= -1
    /\ stack' = <<[Frame("increment", o, "check") EXCEPT !.value = value]>>
    /\ hist' = IncrementCalled(o, value)
    /\ outcome' = "running"
    /\ UNCHANGED <<event_registry, _achivement_ids, alive, heap, now>>

\* an increment without the test of line 122
increment_check_unguarded ==
    /\ Running("increment", "check")
    /\ heap' = [heap EXCEPT ![Top.self]._current_value = @ + Top.value]
    /\ stack' = Rest \o
         <<[Top EXCEPT !.pc = "compare"],
           DispatchFrame("on_increment",
               NumArg(heap[Top.self]._current_value + Top.value))>>
    /\ event_registry' = DispatchRegistry(event_registry, "on_increment")
    /\ UNCHANGED <<_achivement_ids, alive, now, calls, outcome, last, hist>>

\* lines 122-126
increment_check ==
    /\ Running("increment", "check")
    /\ IF heap[Top.self]._achieved
       THEN /\ Return
            /\ UNCHANGED <<event_registry, heap>>
       ELSE /\ heap' = [heap EXCEPT ![Top.self]._current_value = @ + Top.value]
            /\ stack' = Rest \o
                 <<[Top EXCEPT !.pc = "compare"],
                   DispatchFrame("on_increment",
                       NumArg(heap[Top.self]._current_value + Top.value))>>
            /\ event_registry' = DispatchRegistry(event_registry, "on_increment")
            /\ UNCHANGED outcome
    /\ UNCHANGED <<_achivement_ids, alive, now, calls, last, hist>>

\* lines 128-130
increment_compare ==
    /\ Running("increment", "compare")
    /\ IF GoalReached(Top.self)
       THEN /\ heap' = [heap EXCEPT
                          ![Top.self]._current_value = heap[Top.self]._goal]
            /\ stack' = CallSetAchieved([Top EXCEPT !.pc = "done"], Top.self)
            /\ UNCHANGED outcome
       ELSE /\ Return
            /\ UNCHANGED heap
    /\ UNCHANGED <<event_registry, _achivement_ids, alive, now,
                   calls, last, hist>>

increment_done ==
    /\ Running("increment", "done")
    /\ Return
    /\ UNCHANGED <<event_registry, _achivement_ids, alive, heap, now,
                   calls, last, hist>>

(***************************************************************************)
(* TimeBasedAchievement.tick, lines 143-151.                               *)
(***************************************************************************)
\* a test of line 148 with < for <=
InTimeStrict(self, current_time) ==
    current_time - heap[self]._last_tick < heap[self]._rate

\* the test of line 148
InTime(self, current_time) ==
    current_time - heap[self]._last_tick <= heap[self]._rate

\* the history of a tick call: its time
TickCalled(o) == [hist EXCEPT ![o].ticks = Append(@, now)]

tick(o) ==
    /\ Begin(Op("tick", "none", NoHandle, o, now))
    /\ heap[o].live /\ heap[o].cls = "TimeBasedAchievement"
    /\ hist[o].ndisp < MaxDispatch
    /\ Len(hist[o].ticks) < MaxTicks
    /\ stack' = <<Frame("tick", o, "check")>>
    /\ hist' = TickCalled(o)
    /\ outcome' = "running"
    /\ UNCHANGED <<event_registry, _achivement_ids, alive, heap, now>>

\* lines 144-149
tick_check ==
    /\ Running("tick", "check")
    /\ IF heap[Top.self]._achieved
       THEN /\ Return
       ELSE /\ IF InTime(Top.self, now)
               THEN stack' = CallSetAchieved(
                        [Top EXCEPT !.pc = "store", !.current_time = now],
                        Top.self)
               ELSE stack' = Rest \o
                        <<[Top EXCEPT !.pc = "store", !.current_time = now]>>
            /\ UNCHANGED outcome
    /\ UNCHANGED <<event_registry, _achivement_ids, alive, heap, now,
                   calls, last, hist>>

\* a tick without line 151
tick_store_skipped ==
    /\ Running("tick", "store")
    /\ Return
    /\ UNCHANGED <<event_registry, _achivement_ids, alive, heap, now,
                   calls, last, hist>>

\* line 151
tick_store ==
    /\ Running("tick", "store")
    /\ heap' = [heap EXCEPT ![Top.self]._last_tick = Top.current_time]
    /\ Return
    /\ UNCHANGED <<event_registry, _achivement_ids, alive, now,
                   calls, last, hist>>

(***************************************************************************)
(* Listeners that make calls of their own.  The library runs them inside   *)
(* the loop of line 26, so what they do happens while the dispatch that    *)
(* invoked them, and the call that made it, are still in progress.         *)
(***************************************************************************)
\* another invocation of the listener on top is in progress below it
Busy(func) ==
    \E k \in 1 .. (Len(stack) - 1) :
        stack[k].op = "listener" /\ stack[k].func = func

\* the listeners some frame is executing: a frame holds a reference to
\* its function
Executing == {stack[k].func : k \in 1 .. Len(stack)}

\* a listener that received an achievement calls set_achieved, increment
\* or tick on it (unless it is itself the caller of this dispatch: it
\* guards itself against its own recursion)
listener_calls_back ==
    /\ Running("listener", "body")
    /\ Top.func \in Reentrant
    /\ Top.arg.t = "obj" /\ ~Busy(Top.func)
    /\ LET o == Top.arg.v
           caller == [Top EXCEPT !.pc = "done"]
       IN  \/ /\ stack' = CallSetAchieved(caller, o)
              /\ hist' = SetAchievedCalled(o)
           \/ /\ heap[o].cls = "IncrementalAchievement"
              /\ \E value \in Deltas :
                    /\ stack' = Rest \o
                         <<caller,
                           [Frame("increment", o, "check") EXCEPT !.value = value]>>
                    /\ hist' = IncrementCalled(o, value)
           \/ /\ heap[o].cls = "TimeBasedAchievement"
              /\ stack' = Rest \o <<caller, Frame("tick", o, "check")>>
              /\ hist' = TickCalled(o)
    /\ UNCHANGED <<event_registry, _achivement_ids, alive, heap, now,
                   calls, outcome, last>>

\* the listener returns to the loop: after its call, or at once when it
\* makes none
listener_returns ==
    /\ stack # <<>> /\ Top.op = "listener"
    /\ Top.func \in Reentrant
    /\ Top.pc = "done" \/ Top.arg.t # "obj" \/ Busy(Top.func)
    /\ Return
    /\ UNCHANGED <<event_registry, _achivement_ids, alive, heap, now,
                   calls, last, hist>>

\* a listener registers func for the event it was invoked for, lines
\* 39-53, and returns
listener_set_handler(func) ==
    /\ Running("listener", "body")
    /\ Top.func \in Mutating
    /\ func \in alive
    /\ event_registry' = SetHandlerRegistry(event_registry, Top.name, func)
    /\ Return
    /\ UNCHANGED <<_achivement_ids, alive, heap, now, calls, last, hist>>

\* a listener drops the last strong reference to func, which is finalized
\* (the callbacks of lines 31-34 run), and returns
listener_drops(func) ==
    /\ Running("listener", "body")
    /\ Top.func \in Mutating
    /\ func \in alive \ Executing
    /\ alive' = alive \ {func}
    /\ event_registry' = RunCallbacks(event_registry, Names, WeakRefTo(func))
    /\ Return
    /\ UNCHANGED <<_achivement_ids, heap, now, calls, last, hist>>

\* time passes between calls.  Only TimeBasedAchievement reads the clock,
\* so the clock is held while an instance of another class is live.
advance ==
    /\ stack = <<>>
    /\ now < MaxTime
    /\ \A o \in Objs : heap[o].live => heap[o].cls = "TimeBasedAchievement"
    /\ now' = now + 1
    /\ UNCHANGED <<event_registry, _achivement_ids, alive, heap, stack,
                   calls, outcome, last, hist>>

(***************************************************************************)
(* The specifications.  The calls are the same in all of them; what        *)
(* differs is the population they are made on.                             *)
(*   SpecBus: the event bus alone, with every kind of listener.            *)
(*   SpecAch: one achievement of any class, its calls, and the listeners   *)
(*            f (returns) and g (raises) registered and finalized.         *)
(*   SpecIds: construction and destruction over two slots and two ids.     *)
(*   SpecRe:  one achievement and the listeners f and r, where r calls     *)
(*            back on the achievement it receives.                         *)
(*   SpecMut: the event bus with the listeners f, m and s, where s changes *)
(*            the listener set of the event it is invoked for.             *)
(***************************************************************************)
Listeners == {"f", "g"}
One == {1}

NextBus ==
    \/ \E name \in Names, func \in Callables : set_handler(name, func)
    \/ \E name \in Names, func \in Handles : remove_handler(name, func)
    \/ \E func \in Functions \cup Methods : finalize(func)
    \/ \E name \in Names, arg \in UserArgs : dispatch_event(name, arg)
    \/ dispatch_invoke
    \/ dispatch_return

SpecBus == Init /\ [][NextBus]_vars

NextAch ==
    \/ \E name \in Names, func \in Listeners : set_handler(name, func)
    \/ \E func \in Listeners : finalize(func)
    \/ \E name \in Names, arg \in UserArgs : dispatch_event(name, arg)
    \/ dispatch_invoke
    \/ dispatch_return
    \/ \E o \in One, cls \in Classes, uid \in One : construct(o, cls, uid)
    \/ \E o \in One : destroy(o)
    \/ \E o \in One : set_achieved(o)
    \/ set_achieved_check
    \/ set_achieved_set
    \/ \E o \in One, value \in Deltas : increment(o, value)
    \/ increment_check
    \/ increment_compare
    \/ increment_done
    \/ \E o \in One : tick(o)
    \/ tick_check
    \/ tick_store
    \/ advance

SpecAch == Init /\ [][NextAch]_vars

NextIds ==
    \/ \E o \in Objs, cls \in Classes, uid \in Uids : construct(o, cls, uid)
    \/ \E o \in Objs : destroy(o)
    \/ \E o \in Objs : set_achieved(o)
    \/ set_achieved_check
    \/ set_achieved_set
    \/ dispatch_return

SpecIds == Init /\ [][NextIds]_vars

CallingBack == {"f", "r"}

NextRe ==
    \/ \E name \in Names, func \in CallingBack : set_handler(name, func)
    \/ dispatch_invoke
    \/ dispatch_return
    \/ \E o \in One, cls \in Classes, uid \in One : construct(o, cls, uid)
    \/ \E o \in One : destroy(o)
    \/ \E o \in One : set_achieved(o)
    \/ set_achieved_check
    \/ set_achieved_set
    \/ \E o \in One, value \in Deltas : increment(o, value)
    \/ increment_check
    \/ increment_compare
    \/ increment_done
    \/ \E o \in One : tick(o)
    \/ tick_check
    \/ tick_store
    \/ listener_calls_back
    \/ listener_returns
    \/ advance

SpecRe == Init /\ [][NextRe]_vars

Changing == {"f", "m", "s"}

NextMut ==
    \/ \E name \in Names, func \in Changing : set_handler(name, func)
    \/ \E name \in Names, arg \in UserArgs : dispatch_event(name, arg)
    \/ dispatch_invoke
    \/ dispatch_changed
    \/ dispatch_return
    \/ \E func \in Changing : listener_set_handler(func)
    \/ \E func \in Changing : listener_drops(func)

SpecMut == Init /\ [][NextMut]_vars

(***************************************************************************)
(* The claims about the event bus, under SpecBus.                          *)
(***************************************************************************)
Weak == Functions \cup Methods    \* the listeners a registry can hold

\* C1: for a live listener f registered under n, remove_handler(n, f)
\* removes f from n's set (so that no later dispatch of n reaches f), and
\* deletes n's entry if f was its only listener.
C1_RemoveHandlerRemoves ==
    [][\A n \in Names, f \in Weak :
         (remove_handler(n, Callable(f)) /\ Registered(n, f))
            => /\ WeakRefTo(f) \notin Get(event_registry', n)
               /\ event_registry[n] = {WeakRefTo(f)}
                     => n \notin DOMAIN event_registry']_vars

\* C6: the finalization of a listener f takes its weak reference out of
\* every name's set and deletes the entry of each name it was the last
\* listener of; no set ever holds a dead reference, so no dispatch calls
\* one (which would raise) and none invokes a finalized listener.
C6_FinalizedListenerIsGone ==
    /\ [](/\ \A n \in DOMAIN event_registry :
                \A wr \in event_registry[n] : Deref(wr) # "None"
          /\ outcome # "TypeError_None"
          /\ \A i \in 1 .. Len(calls) : calls[i].func \in alive)
    /\ [][\A f \in Weak : finalize(f) =>
            \A n \in Names :
               /\ WeakRefTo(f) \notin Get(event_registry', n)
               /\ (n \in DOMAIN event_registry
                     /\ event_registry[n] = {WeakRefTo(f)})
                    => n \notin DOMAIN event_registry']_vars

\* a registered listener was finalized, and with it the last entry went
C6_Witness ==
    /\ last.op = "finalize" /\ last.held
    /\ last.func.referent \notin alive
    /\ DOMAIN event_registry = {}

\* C7: no event name of event_registry maps to an empty set.
C7_NoEmptySet ==
    \A n \in DOMAIN event_registry : event_registry[n] # {}

\* C8: a dispatch_event(n, args) invokes only listeners that are alive and
\* registered under n, each at most once and with exactly args; when it
\* returns it has invoked each of them; and it leaves n without an entry
\* if n had none (with no listeners there is nothing to invoke or fail).
C8_DispatchReachesEachListenerOnce ==
    last.op = "dispatch_event" =>
        /\ \A i \in 1 .. Len(calls) :
              /\ calls[i].name = last.name
              /\ calls[i].arg = NumArg(last.value)
              /\ calls[i].func \in alive
              /\ Registered(last.name, calls[i].func)
              /\ \A j \in 1 .. Len(calls) : calls[j].func = calls[i].func => j = i
        /\ outcome = "returned" =>
              \A f \in Weak : Registered(last.name, f) =>
                 \E i \in 1 .. Len(calls) : calls[i].func = f
        /\ (last.name \in DOMAIN event_registry) <=> last.had
        /\ ~last.had => calls = <<>> /\ outcome \in {"running", "returned"}

\* a dispatch returned after invoking two listeners of its name while a
\* third, registered only under the other name, was left alone
C8_Witness ==
    /\ last.op = "dispatch_event" /\ outcome = "returned"
    /\ Len(calls) = 2
    /\ \E f \in Weak : \E n \in Names :
          Registered(n, f) /\ ~Registered(last.name, f)

\* C9: a remove_handler(n, f) for an f that is not registered under n (n
\* may have no entry at all) returns normally and leaves event_registry as
\* it was.
C9_RemoveUnregisteredIsNoOp ==
    [][\A n \in Names, h \in Handles :
         (remove_handler(n, h) /\ ~Registered(n, h.referent))
            => event_registry' = event_registry /\ outcome' = "returned"]_vars

\* an unregistered listener was removed from a name that has other
\* listeners
C9_Witness ==
    /\ last.op = "remove_handler" /\ ~last.held /\ last.had
    /\ outcome = "returned"
    /\ event_registry[last.name] # {}

(***************************************************************************)
(* The claims about achievements, under SpecAch and SpecIds.               *)
(***************************************************************************)
\* the instances of a class on which every call so far returned normally,
\* none is in progress, and set_achieved was not called from outside
Settled(o, cls) ==
    /\ heap[o].live /\ heap[o].cls = cls
    /\ ~hist[o].failed /\ ~hist[o].direct
    /\ stack = <<>>

\* C2: as long as no call on an achievement ended in a listener's failure,
\* on_achieved has been dispatched for it at most once, and exactly once
\* as soon as a set_achieved call on it has returned.
C2_OnAchievedDispatchedOnce ==
    \A o \in Objs :
        (heap[o].live /\ ~hist[o].failed) =>
            /\ hist[o].ndisp <= 1
            /\ (hist[o].direct /\ stack = <<>>) => hist[o].ndisp = 1

\* a set_achieved call on an achieved Achievement returned without
\* invoking the live listener registered for on_achieved
C2_Witness ==
    \E o \in Objs :
        /\ heap[o].live /\ heap[o].cls = "Achievement" /\ ~hist[o].failed
        /\ last.op = "set_achieved" /\ last.self = o /\ outcome = "returned"
        /\ hist[o].ndisp = 1
        /\ Registered("on_achieved", "f") /\ calls = <<>>

\* C3: once the running sum of the increment calls on an
\* IncrementalAchievement has reached its goal (listeners returning
\* normally, no other call made on it), after each call: achieved is true,
\* current_value is the goal, and on_achieved was dispatched exactly once;
\* every on_achieved dispatch of an increment carries the instance.
C3_IncrementReachesGoal ==
    /\ \A o \in Objs :
          (Settled(o, "IncrementalAchievement") /\ hist[o].crossed) =>
              /\ heap[o]._achieved
              /\ heap[o]._current_value = heap[o]._goal
              /\ hist[o].ndisp = 1
    /\ last.op = "increment" =>
          /\ \A k \in 1 .. Len(stack) :
                (stack[k].op = "dispatch_event" /\ stack[k].name = "on_achieved")
                    => stack[k].arg = ObjArg(last.self)
          /\ \A i \in 1 .. Len(calls) :
                calls[i].name = "on_achieved" => calls[i].arg = ObjArg(last.self)

\* the increment that reached the goal has returned, and listener f
\* received on_achieved with the instance
C3_Witness ==
    \E o \in Objs :
        /\ Settled(o, "IncrementalAchievement") /\ hist[o].crossed
        /\ last.op = "increment" /\ last.self = o /\ last.value < heap[o]._goal
        /\ \E i \in 1 .. Len(calls) :
              calls[i] = [func |-> "f", name |-> "on_achieved", arg |-> ObjArg(o)]

\* C4, as claimed: after exactly two ticks made later than the
\* construction, achieved is true exactly when the two ticks are at most
\* rate apart, and a single tick never grants the achievement.
C4_TwoTicksDecide ==
    \A o \in Objs :
        (/\ Settled(o, "TimeBasedAchievement")
         /\ \A i \in 1 .. Len(hist[o].ticks) : hist[o].ticks[i] > hist[o].born) =>
            /\ Len(hist[o].ticks) = 2 =>
                  (heap[o]._achieved <=>
                      hist[o].ticks[2] - hist[o].ticks[1] <= heap[o]._rate)
            /\ Len(hist[o].ticks) <= 1 => ~heap[o]._achieved

\* What tick does instead (line 141 starts _last_tick at the construction
\* time): after one tick, achieved is true exactly when the tick came at
\* most rate after the construction; after two, exactly when the first
\* came at most rate after the construction or the second at most rate
\* after the first.
TicksCountFromConstruction ==
    \A o \in Objs :
        Settled(o, "TimeBasedAchievement") =>
            LET t == hist[o].ticks
                first == t[1] - hist[o].born <= heap[o]._rate
            IN  /\ Len(t) = 0 => ~heap[o]._achieved
                /\ Len(t) = 1 => (heap[o]._achieved <=> first)
                /\ Len(t) = 2 => (heap[o]._achieved <=>
                                    (first \/ t[2] - t[1] <= heap[o]._rate))

\* two ticks, each more than rate after the tick (or construction) before
\* it, and the achievement is not granted
TwoLateTicks ==
    \E o \in Objs :
        /\ Settled(o, "TimeBasedAchievement")
        /\ Len(hist[o].ticks) = 2
        /\ hist[o].ticks[1] - hist[o].born > heap[o]._rate
        /\ hist[o].ticks[2] - hist[o].ticks[1] > heap[o]._rate
        /\ ~heap[o]._achieved

\* C5: the ids of the live instances are pairwise distinct; a construction
\* is rejected exactly when another live instance holds its id, so an id
\* is accepted again once the instance that held it is destroyed.
C5_LiveIdsDistinct ==
    /\ \A o1, o2 \in Objs :
          (heap[o1].live /\ heap[o2].live /\ o1 # o2) => heap[o1].id # heap[o2].id
    /\ last.op = "construct" =>
          /\ outcome \in {"returned", "AssertionError"}
          /\ outcome = "AssertionError" <=>
                \E o \in Objs \ {last.self} :
                    heap[o].live /\ heap[o].id = last.value
          /\ outcome = "returned" =>
                heap[last.self].live /\ heap[last.self].id = last.value

\* a construction was rejected for an id that a live instance holds
C5_Witness ==
    /\ last.op = "construct" /\ outcome = "AssertionError"
    /\ \E o \in Objs : heap[o].live /\ heap[o].id = last.value

\* C11: an instance is unachieved when its construction returns, and no
\* step of a set_achieved, increment or tick call (nor any other step made
\* while the instance lives) takes achieved from true back to false.
C11_AchievedMonotonic ==
    [][\A o \in Objs :
         /\ (~heap[o].live /\ heap'[o].live) => ~heap'[o]._achieved
         /\ (heap[o].live /\ heap[o]._achieved /\ heap'[o].live)
               => heap'[o]._achieved]_vars

\* an increment on an achieved instance returned without a dispatch (f
\* listens to on_increment and was not invoked), and achieved is still true
C11_Witness ==
    \E o \in Objs :
        /\ heap[o].live /\ heap[o]._achieved
        /\ last.op = "increment" /\ last.self = o /\ outcome = "returned"
        /\ Registered("on_increment", "f") /\ calls = <<>>

\* C10: when a listener fails, nothing is invoked after it, the exception
\* unwinds every frame down to the top-level call, which ends with it,
\* and the rest of set_achieved, increment or tick does not run (the
\* achievement stays unachieved).
C10_ListenerFailurePropagates ==
    \A i \in 1 .. Len(calls) :
        calls[i].func \in Raising =>
            /\ i = Len(calls)
            /\ stack = <<>>
            /\ outcome = "TypeError"
            /\ last.self \in Objs =>
                  ~heap[last.self]._achieved /\ hist[last.self].failed

\* an increment ended with the failure of listener g, and listener f of
\* the same event was not invoked
C10_Witness ==
    /\ last.op = "increment" /\ outcome = "TypeError"
    /\ Len(calls) = 1 /\ calls[1].func = "g"
    /\ Registered(calls[1].name, "f")

(***************************************************************************)
(* The claims about listeners that call back, under SpecRe.                *)
(***************************************************************************)
\* C12: no listener is invoked twice with on_achieved for the same
\* achievement; stated over the invocations of one top-level call, which
\* include those of the calls its listeners make on the achievement they
\* receive.
C12_ListenerHearsOnAchievedOnce ==
    \A i, j \in 1 .. Len(calls) :
        (/\ calls[i].name = "on_achieved" /\ calls[i].arg.t = "obj"
         /\ calls[j].name = "on_achieved" /\ calls[j].arg = calls[i].arg
         /\ calls[j].func = calls[i].func) => i = j

(***************************************************************************)
(* The claims about IncrementalAchievement and TimeBasedAchievement,       *)
(* under SpecAch.                                                          *)
(***************************************************************************)
\* C13: between the calls made on an IncrementalAchievement (increment
\* with any value, set_achieved; none of them ended by a listener's
\* failure), achieved is true exactly when current_value has reached the
\* goal: achieved implies current_value = goal, and current_value >= goal
\* implies achieved.
C13_AchievedIffGoalReached ==
    \A o \in Objs :
        (/\ heap[o].live /\ heap[o].cls = "IncrementalAchievement"
         /\ ~hist[o].failed /\ stack = <<>>) =>
            /\ heap[o]._achieved => heap[o]._current_value = heap[o]._goal
            /\ heap[o]._current_value >= heap[o]._goal => heap[o]._achieved

\* C14: an increment call on an IncrementalAchievement, however it ended
\* (it returned, or a listener of on_increment or on_achieved failed),
\* leaves current_value at most the goal.
C14_CurrentValueClamped ==
    \A o \in Objs :
        (/\ heap[o].live /\ heap[o].cls = "IncrementalAchievement"
         /\ last.op = "increment" /\ last.self = o /\ stack = <<>>) =>
            heap[o]._current_value <= heap[o]._goal

\* the invocations an increment call made for on_increment
OnIncrementCalls == {i \in 1 .. Len(calls) : calls[i].name = "on_increment"}

\* C15: an increment(d) call on an unachieved instance invokes each
\* listener of on_increment exactly once (a call on an achieved instance
\* invokes none, of any event), with the sum of the previous current_value
\* and d as payload, whether or not that sum is then clamped to the goal;
\* a call on an achieved instance leaves current_value and achieved as
\* they were.
C15_IncrementDispatchesOnIncrementOnce ==
    last.op = "increment" =>
        LET o == last.self
            payload == NumArg(last.before._current_value + last.value)
        IN  /\ \A i \in OnIncrementCalls :
                  /\ ~last.before._achieved
                  /\ calls[i].arg = payload
                  /\ \A j \in OnIncrementCalls :
                        calls[j].func = calls[i].func => j = i
            /\ \A k \in 1 .. Len(stack) :
                  (stack[k].op = "dispatch_event" /\ stack[k].name = "on_increment")
                     => ~last.before._achieved /\ stack[k].arg = payload
            /\ (~last.before._achieved /\ outcome = "returned") =>
                  \A f \in Listeners :
                      Registered("on_increment", f) =>
                          \E i \in OnIncrementCalls : calls[i].func = f
            /\ last.before._achieved =>
                  /\ calls = <<>>
                  /\ heap[o]._current_value = last.before._current_value
                  /\ heap[o]._achieved

\* an increment that took current_value beyond the goal returned: f was
\* invoked for on_increment with the unclamped sum, and current_value is
\* now the goal
C15_Witness ==
    /\ last.op = "increment" /\ outcome = "returned"
    /\ ~last.before._achieved
    /\ last.before._current_value + last.value > heap[last.self]._goal
    /\ heap[last.self]._current_value = heap[last.self]._goal
    /\ \E i \in OnIncrementCalls :
          /\ calls[i].func = "f"
          /\ calls[i].arg = NumArg(last.before._current_value + last.value)

\* the invocations an increment call made for on_achieved
OnAchievedCalls == {i \in 1 .. Len(calls) : calls[i].name = "on_achieved"}

\* the dispatch loops in progress for an event
Dispatching(name) ==
    {k \in 1 .. Len(stack) :
        stack[k].op = "dispatch_event" /\ stack[k].name = name}

\* C16: in an increment call, the dispatch of on_achieved starts only
\* after that of on_increment is over (the two loops are never in progress
\* together, and no on_increment invocation follows an on_achieved one);
\* on_achieved is dispatched at most once (no listener hears it twice);
\* and a call that leaves current_value below the goal, or began
\* achieved, dispatches no on_achieved.
C16_OnIncrementThenOnAchieved ==
    last.op = "increment" =>
        /\ Dispatching("on_increment") = {} \/ Dispatching("on_achieved") = {}
        /\ Cardinality(Dispatching("on_achieved")) <= 1
        /\ \A i \in OnAchievedCalls :
              /\ \A j \in OnIncrementCalls : j < i
              /\ \A j \in OnAchievedCalls : calls[j].func = calls[i].func => j = i
        /\ (\/ last.before._achieved
            \/ last.before._current_value + last.value < last.before._goal) =>
               /\ OnAchievedCalls = {}
               /\ Dispatching("on_achieved") = {}
        /\ Dispatching("on_achieved") # {} =>
               /\ heap[last.self]._current_value = heap[last.self]._goal
               /\ \A f \in Listeners :
                     Registered("on_increment", f) =>
                         \E i \in OnIncrementCalls : calls[i].func = f

\* an increment that reached the goal returned, and f, listening to both
\* events, was invoked for on_increment and then for on_achieved
C16_Witness ==
    /\ last.op = "increment" /\ outcome = "returned"
    /\ Len(calls) = 2
    /\ calls[1].func = "f" /\ calls[1].name = "on_increment"
    /\ calls[2].func = "f" /\ calls[2].name = "on_achieved"
    /\ heap[last.self]._achieved

\* C17, as claimed: a tick call that has returned leaves last_tick at the
\* time of the call, whatever the achievement was like when it began.
C17_EveryTickStoresItsTime ==
    \A o \in Objs :
        (/\ heap[o].live /\ last.op = "tick" /\ last.self = o
         /\ outcome = "returned") =>
            heap[o]._last_tick = last.value

\* C17, amended: a tick call on an unachieved instance that has returned
\* leaves last_tick at the time of the call, whether or not it granted the
\* achievement; a tick call on an achieved instance, or one ended by a
\* listener's failure, leaves last_tick as it was.
C17_TickStoresItsTimeUnlessAchieved ==
    \A o \in Objs :
        (heap[o].live /\ last.op = "tick" /\ last.self = o /\ stack = <<>>) =>
            heap[o]._last_tick =
                IF ~last.before._achieved /\ outcome = "returned"
                THEN last.value
                ELSE last.before._last_tick

\* a tick made later than the construction, within the rate, returned: it
\* granted the achievement and moved last_tick to its own time
C17_Witness ==
    \E o \in Objs :
        /\ heap[o].live /\ last.op = "tick" /\ last.self = o
        /\ outcome = "returned"
        /\ ~last.before._achieved /\ heap[o]._achieved
        /\ heap[o]._last_tick = last.value
        /\ last.before._last_tick < last.value

(***************************************************************************)
(* The claim about the order of set_achieved, under SpecRe.                *)
(***************************************************************************)
\* the achievements whose on_achieved dispatch is in progress
BeingAnnounced ==
    {stack[k].arg.v : k \in {j \in Dispatching("on_achieved") :
                                 stack[j].arg.t = "obj"}}

\* a listener invoked earlier in the call has made a call of its own on
\* the achievement it received
CalledBackOn(o) ==
    \E i \in 1 .. Len(calls) :
        /\ calls[i].func \in Reentrant /\ calls[i].arg = ObjArg(o)
        /\ ~(i = Len(calls) /\ Running("listener", "body"))

\* every dispatch that set_achieved makes is one of on_achieved with its
\* instance as payload
AnnouncesItself ==
    \A k \in 1 .. (Len(stack) - 1) :
        (stack[k].op = "set_achieved" /\ stack[k].pc = "set")
            => /\ stack[k + 1].op = "dispatch_event"
               /\ stack[k + 1].name = "on_achieved"
               /\ stack[k + 1].arg = ObjArg(stack[k].self)

\* C18, as claimed: set_achieved dispatches on_achieved with its instance;
\* as long as that dispatch is in progress (its listeners are running or
\* yet to run) the instance reads unachieved; once a set_achieved call has
\* returned it reads achieved.
C18_UnachievedWhileAnnounced ==
    /\ AnnouncesItself
    /\ \A o \in BeingAnnounced : ~heap[o]._achieved
    /\ (last.op = "set_achieved" /\ outcome = "returned")
          => heap[last.self]._achieved

\* C18, amended: the same, except that the instance may read achieved
\* during the dispatch once a listener invoked in it has itself called
\* set_achieved, increment or tick on it.
C18_UnachievedWhileAnnouncedUnlessCalledBack ==
    /\ AnnouncesItself
    /\ \A o \in BeingAnnounced : CalledBackOn(o) \/ ~heap[o]._achieved
    /\ (last.op = "set_achieved" /\ outcome = "returned")
          => heap[last.self]._achieved

\* a set_achieved call on an unachieved instance returned after invoking
\* f alone with the instance, which now reads achieved
C18_Witness ==
    /\ last.op = "set_achieved" /\ outcome = "returned"
    /\ ~last.before._achieved /\ heap[last.self]._achieved
    /\ calls = <<[func |-> "f", name |-> "on_achieved", arg |-> ObjArg(last.self)]>>

(***************************************************************************)
(* The claim about rejected constructions, under SpecIds.                  *)
(***************************************************************************)
\* the live instances
Live == {o \in Objs : heap[o].live}

\* C19: _achivement_ids holds exactly the ids of the live instances, each
\* once; a construction is rejected exactly when its id is in the list,
\* and a rejected construction (the finalization of the instance it was
\* building included) leaves the list and the instances as they were, so
\* that the id stays refused until the instance holding it is destroyed.
C19_RejectedConstructionKeepsIds ==
    /\ [](/\ Range(_achivement_ids) = {heap[o].id : o \in Live}
          /\ Len(_achivement_ids) = Cardinality(Live))
    /\ [][\A o \in Objs, cls \in Classes, uid \in Uids :
            construct(o, cls, uid) =>
               /\ outcome' = "AssertionError" <=>
                     \E p \in Live : heap[p].id = uid
               /\ outcome' = "AssertionError" =>
                     _achivement_ids' = _achivement_ids /\ heap' = heap]_vars

\* a construction was rejected for the id of the one live instance, and
\* the list still holds that id alone
C19_Witness ==
    /\ last.op = "construct" /\ outcome = "AssertionError"
    /\ _achivement_ids = <<last.value>>
    /\ \E o \in Objs \ {last.self} : Live = {o} /\ heap[o].id = last.value

(***************************************************************************)
(* The claim about listeners that change the listener set, under SpecMut.  *)
(***************************************************************************)
\* C20: a dispatch_event(n, ...) whose listeners register a handler for n
\* or drop a listener of n is not disturbed by it: it does not end in an
\* exception, and when it has returned, every listener that was
\* registered under n when it began and is still alive was invoked
\* exactly once.
C20_ListenerChangesDoNotDisturbDispatch ==
    last.op = "dispatch_event" =>
        /\ outcome \in {"running", "returned"}
        /\ outcome = "returned" =>
              \A wr \in last.listeners :
                  wr.referent \in alive =>
                      Cardinality({i \in 1 .. Len(calls) :
                                      calls[i].func = wr.referent}) = 1

====
